---- MODULE Spec2Model ----
(***************************************************************************)
(* Model of CPGPython/_statements.py: the statement lowering of the Python *)
(* frontend.  A module body is lowered statement by statement; every       *)
(* handler is an operator that takes the lowering context                  *)
(*   c = [sm |-> scope stack, log |-> events so far, raised |-> BOOLEAN]   *)
(* and returns [c |-> context after, r |-> produced graph node].           *)
(* A Python exception sets c.raised; every later primitive is then a       *)
(* no-op, which is how the exception leaves the handlers.                  *)
(***************************************************************************)
EXTENDS Integers, Sequences, FiniteSets, TLC

VARIABLES sm, pc, input, result, log, before, count

vars == <<sm, pc, input, result, log, before, count>>

\* number of statements of the module body that are lowered
MaxTop == 2

(***************************************************************************)
(* Graph nodes and syntax nodes                                            *)
(***************************************************************************)
None == [node |-> "None"]

NoneAst == [kind |-> "None"]

Name(id) == [kind |-> "Name", id |-> id]

Attribute(value, attr) == [kind |-> "Attribute", value |-> value, attr |-> attr]

Call(func, args, keywords) ==
    [kind |-> "Call", func |-> func, args |-> args, keywords |-> keywords]

Constant == [kind |-> "Constant"]

ListExpr == [kind |-> "List"]

Subscript == [kind |-> "Subscript"]

UnknownType == "UNKNOWN"

\* the expression lowerer: what kind of graph expression an expression node
\* becomes, with the name, base and type the statement handlers read
RECURSIVE LowerExpression(_)
LowerExpression(e) ==
    CASE e.kind = "Name" ->
           [node |-> "DeclaredReferenceExpression", name |-> e.id,
            type |-> UnknownType, code |-> e]
      [] e.kind = "Attribute" ->
           [node |-> "MemberExpression", name |-> e.attr,
            base |-> LowerExpression(e.value), type |-> UnknownType, code |-> e]
      [] e.kind = "Constant" ->
           [node |-> "Literal", name |-> "", type |-> "int", code |-> e]
      [] e.kind = "List" ->
           [node |-> "InitializerListExpression", name |-> "", type |-> "list",
            code |-> e]
      [] e.kind = "Call" ->
           [node |-> "CallExpression", name |-> "", type |-> UnknownType,
            code |-> e]
      [] OTHER ->
           [node |-> "Expression", name |-> "", type |-> UnknownType, code |-> e]

DeclarationNodes ==
    {"FunctionDeclaration", "MethodDeclaration", "ConstructorDeclaration",
     "RecordDeclaration", "VariableDeclaration", "FieldDeclaration",
     "ParamVariableDeclaration"}

is_declaration(n) == n.node \in DeclarationNodes

is_declared_reference(n) == n.node = "DeclaredReferenceExpression"

is_member_expression(n) == n.node = "MemberExpression"

wrap_declaration_to_stmt(d) ==
    [node |-> "DeclarationStatement", declarations |-> <<d>>]

newStatement(code) == [node |-> "Statement", code |-> code]

(***************************************************************************)
(* Logging and the scope manager                                           *)
(***************************************************************************)
Emit(c, e) == IF c.raised THEN c ELSE [c EXCEPT !.log = Append(@, e)]

log_with_loc(c, msg, loglevel) ==
    Emit(c, [ev |-> "log", level |-> loglevel, msg |-> msg])

RaiseError(c, what) ==
    IF c.raised THEN c
    ELSE [c EXCEPT !.log = Append(@, [ev |-> "raise", error |-> what]),
                   !.raised = TRUE]

handle_expression(c, e) == Emit(c, [ev |-> "handle_expression", expr |-> e])

\* a diagnostic, or a call of the expression lowerer, under a condition
LogIf(c, cond, msg, loglevel) == IF cond THEN log_with_loc(c, msg, loglevel) ELSE c

LowerIf(c, cond, e) == IF cond THEN handle_expression(c, e) ELSE c

FrameKind(n) == IF n.node = "RecordDeclaration" THEN "record" ELSE "function"

NewFrame(kind, name) ==
    [kind |-> kind, name |-> name, receiver |-> None, decls |-> <<>>,
     fields |-> <<>>]

\* what a scope frame keeps of a registered declaration
DeclEntry(d) ==
    [node |-> d.node, name |-> d.name,
     type |-> IF "type" \in DOMAIN d THEN d.type ELSE ""]

enterScope(c, n) ==
    IF c.raised THEN c
    ELSE [c EXCEPT !.sm = Append(@, NewFrame(FrameKind(n), n.name)),
                   !.log = Append(@, [ev |-> "enterScope", name |-> n.name,
                                      depth |-> Len(c.sm) + 1])]

leaveScope(c, n) ==
    IF c.raised THEN c
    ELSE [c EXCEPT !.sm = SubSeq(@, 1, Len(@) - 1),
                   !.log = Append(@, [ev |-> "leaveScope", name |-> n.name,
                                      depth |-> Len(c.sm),
                                      frame |-> c.sm[Len(c.sm)]])]

addDeclaration(c, d) ==
    IF c.raised THEN c
    ELSE [c EXCEPT !.sm[Len(c.sm)].decls = Append(@, DeclEntry(d)),
                   !.log = Append(@, [ev |-> "addDeclaration",
                                      decl |-> DeclEntry(d),
                                      depth |-> Len(c.sm)])]

FrameHas(f, name) == \E i \in 1..Len(f.decls) : f.decls[i].name = name

FrameGet(f, name) ==
    f.decls[CHOOSE i \in 1..Len(f.decls) :
               /\ f.decls[i].name = name
               /\ \A j \in 1..(i - 1) : f.decls[j].name # name]

\* lookup by name, from the current frame outwards
resolveReference(s, ref) ==
    IF \E k \in 1..Len(s) : FrameHas(s[k], ref.name)
    THEN LET k == CHOOSE k \in 1..Len(s) :
                      /\ FrameHas(s[k], ref.name)
                      /\ \A m \in (k + 1)..Len(s) : ~FrameHas(s[m], ref.name)
         IN  FrameGet(s[k], ref.name)
    ELSE None

isInRecord(s) == \E k \in 1..Len(s) : s[k].kind = "record"

isInFunction(s) == \E k \in 1..Len(s) : s[k].kind = "function"

InnermostIndex(s, kind) ==
    CHOOSE k \in 1..Len(s) :
        /\ s[k].kind = kind
        /\ \A m \in (k + 1)..Len(s) : s[m].kind # kind

\* the receiver of the current function, None without one
CurrentReceiver(s) ==
    IF isInFunction(s) THEN s[InnermostIndex(s, "function")].receiver ELSE None

setReceiver(c, recv) ==
    IF c.raised THEN c ELSE [c EXCEPT !.sm[Len(c.sm)].receiver = recv]

\* getCurrentRecord().addField(v)
addField(c, v) ==
    IF c.raised THEN c
    ELSE LET k == InnermostIndex(c.sm, "record")
         IN  [c EXCEPT !.sm[k].fields = Append(@, DeclEntry(v)),
                       !.log = Append(@, [ev |-> "addField",
                                          decl |-> DeclEntry(v),
                                          record |-> c.sm[k].name])]

\* a declaration is registered and handed back
Registered(c, d) == [c |-> addDeclaration(c, d), r |-> d]

(***************************************************************************)
(* Assignments                                                             *)
(***************************************************************************)
newBinaryOperator(op) ==
    [node |-> "BinaryOperator", operatorCode |-> op, lhs |-> None, rhs |-> None]

newVariableDeclaration(name, type) ==
    [node |-> "VariableDeclaration", name |-> name, type |-> type,
     initializer |-> None]

newFieldDeclaration(name, type, initializer) ==
    [node |-> "FieldDeclaration", name |-> name, type |-> type,
     initializer |-> initializer]

\* the class object ast.<name> itself, as opposed to a node of that class
ClassObject(name) == [kind |-> "type", name |-> name]

handle_operator_code(op) == op

AssignTarget(stmt) ==
    IF stmt.kind = "Assign" THEN stmt.targets[1] ELSE stmt.target

TypeOrUnknown(rhs) == IF rhs # None THEN rhs.type ELSE UnknownType

\* line 506: the statement node is compared, by identity, with the class
IsAugAssign(stmt) == stmt = ClassObject("AugAssign")

\* lines 506-514
AssignAugmented(c, stmt) ==
    [c |-> handle_expression(handle_expression(c, stmt.target), stmt.value),
     r |-> [newBinaryOperator(handle_operator_code(stmt.op)) EXCEPT
               !.lhs = LowerExpression(stmt.target),
               !.rhs = LowerExpression(stmt.value)]]

\* the rebinding built without its right operand
AssignResolvedNoRhs(c, lhs, rhs) ==
    [c |-> c, r |-> [newBinaryOperator("=") EXCEPT !.lhs = lhs]]

\* lines 548-555
AssignResolved(c, lhs, rhs) ==
    [c |-> c, r |-> [newBinaryOperator("=") EXCEPT !.lhs = lhs, !.rhs = rhs]]

\* the class-level attribute declared as a Variable
AssignInRecordAsVariable(c, lhs, rhs) ==
    Registered(c, newVariableDeclaration(lhs.name, TypeOrUnknown(rhs)))

\* lines 557-585
AssignInRecord(c, lhs, rhs) ==
    Registered(LogIf(c, ~is_declared_reference(lhs),
                     "Expected a DeclaredReferenceExpression", "ERROR"),
               newFieldDeclaration(
                   IF is_declared_reference(lhs) THEN lhs.name ELSE "DUMMY",
                   TypeOrUnknown(rhs), rhs))

\* lines 593-612 and 650-672
AssignNewVariable(c, lhs, rhs) ==
    Registered(c, [newVariableDeclaration(lhs.name, TypeOrUnknown(rhs)) EXCEPT
                      !.initializer = rhs])

\* any name accepted as the base of a new field
mem_base_is_any_name(s, lhs) == is_declared_reference(lhs.base)

\* lines 617-627
mem_base_is_receiver(s, lhs) ==
    LET recv == CurrentReceiver(s)
        base == lhs.base
    IN  /\ is_declared_reference(base)
        /\ recv # None
        /\ base.name = recv.name

\* lines 631-634
ReferringValue(s, rhs) ==
    IF rhs # None /\ is_declared_reference(rhs)
    THEN [refersTo |-> resolveReference(s, rhs)] @@ rhs
    ELSE rhs

\* lines 647-649
RegisteredField(c, v) == [c |-> addField(addDeclaration(c, v), v), r |-> v]

\* lines 613-649
AssignMemberInMethod(c, lhs, rhs) ==
    IF ~mem_base_is_receiver(c.sm, lhs)
    THEN [c |-> log_with_loc(c, "I'm confused.", "ERROR"),
          r |-> newStatement("DUMMY")]
    ELSE RegisteredField(c, newFieldDeclaration(lhs.name, TypeOrUnknown(rhs),
                                                ReferringValue(c.sm, rhs)))

\* a name declared again without asking the scope manager
AssignWithoutLookup(c, lhs, rhs) ==
    IF is_declared_reference(lhs) THEN AssignNewVariable(c, lhs, rhs)
    ELSE AssignResolved(c, lhs, rhs)

\* lines 544-672
AssignClassify(c, lhs, rhs) ==
    LET resolved_lhs == resolveReference(c.sm, lhs)
        in_record == isInRecord(c.sm)
        in_function == isInFunction(c.sm)
    IN  IF resolved_lhs # None THEN AssignResolved(c, lhs, rhs)
        ELSE IF in_record /\ ~in_function THEN AssignInRecord(c, lhs, rhs)
        ELSE IF in_record /\ in_function
             THEN IF is_declared_reference(lhs)
                  THEN AssignNewVariable(c, lhs, rhs)
                  ELSE AssignMemberInMethod(c, lhs, rhs)
        ELSE AssignNewVariable(c, lhs, rhs)

\* lines 521-527
AssignLhs(stmt) == LowerExpression(AssignTarget(stmt))

\* lines 528-531
AssignRhs(stmt) ==
    IF stmt.value # NoneAst THEN LowerExpression(stmt.value) ELSE None

\* lines 526-531: the calls of the expression lowerer, left side first
LowerSides(c, stmt) ==
    LowerIf(handle_expression(c, AssignTarget(stmt)), stmt.value # NoneAst,
            stmt.value)

\* lines 533-672
AssignLowered(c, lhs, rhs) ==
    IF ~is_declared_reference(lhs) /\ ~is_member_expression(lhs)
    THEN [c |-> log_with_loc(c, "Expected a DeclaredReferenceExpression or MemberExpression", "ERROR"),
          r |-> newBinaryOperator("=")]
    ELSE AssignClassify(c, lhs, rhs)

\* the value of a multi-target assignment lowered into the operator
AssignMultiTargetWithValue(c, stmt) ==
    [c |-> handle_expression(log_with_loc(c, "NOT_IMPLEMENTED", "ERROR"),
                             stmt.value),
     r |-> [newBinaryOperator("=") EXCEPT !.rhs = LowerExpression(stmt.value)]]

\* lines 515-520
AssignMultiTarget(c, stmt) ==
    [c |-> log_with_loc(c, "NOT_IMPLEMENTED", "ERROR"),
     r |-> newBinaryOperator("=")]

\* lines 501-672
handle_assign_impl(c, stmt) ==
    IF IsAugAssign(stmt) THEN AssignAugmented(c, stmt)
    ELSE IF stmt.kind = "Assign" /\ Len(stmt.targets) # 1
    THEN AssignMultiTarget(c, stmt)
    ELSE AssignLowered(LowerSides(c, stmt), AssignLhs(stmt), AssignRhs(stmt))

\* lines 37-38 and 491-492: the trace message a handler begins with
Started(c, fn, stmt) == Emit(c, [ev |-> "Start", fn |-> fn, stmt |-> stmt])

\* the record of one finished call: what went in, what came out and the
\* scope stack on either side
Returned(c0, res, fn, stmt) ==
    Emit(res.c, [ev |-> "End", fn |-> fn, stmt |-> stmt, r |-> res.r,
                 pre |-> c0.sm, post |-> res.c.sm, at |-> Len(c0.log) + 1])

\* lines 39-44 and 493-498: the handler hands back what its body produced
Finish(c0, res, fn, stmt) == [c |-> Returned(c0, res, fn, stmt), r |-> res.r]

\* lines 490-498
handle_assign(c, stmt) ==
    Finish(c, handle_assign_impl(Started(c, "handle_assign", stmt), stmt),
           "handle_assign", stmt)

(***************************************************************************)
(* Statements                                                              *)
(***************************************************************************)
RECURSIVE handle_statement(_, _)
RECURSIVE make_compound_statement(_, _)
RECURSIVE handle_function_or_method(_, _, _)
RECURSIVE handle_for(_, _)
RECURSIVE CompoundLoop(_, _, _)
RECURSIVE ClassBodyLoop(_, _, _)
RECURSIVE LogTimes(_, _, _, _)
RECURSIVE ArgumentsLoop(_, _, _)
RECURSIVE DecoratorLoop(_, _, _)
RECURSIVE ImportLoop(_, _, _)
RECURSIVE KeywordsLoop(_, _, _)

\* one diagnostic per element of a list that is only iterated to complain
LogTimes(c, n, msg, loglevel) ==
    IF n = 0 THEN c ELSE LogTimes(log_with_loc(c, msg, loglevel), n - 1, msg, loglevel)

newCompoundStatement == [node |-> "CompoundStatement", statements |-> <<>>]

\* the child appended as it came back from the dispatcher
KeepCompoundChild(s) == s

\* lines 481-482
WrapCompoundChild(s) == IF is_declaration(s) THEN wrap_declaration_to_stmt(s) ELSE s

\* line 483: the lowered child joins the block
CompoundAppend(compound, res) ==
    [c |-> res.c,
     r |-> [compound EXCEPT !.statements = Append(@, WrapCompoundChild(res.r))]]

\* lines 479-483: st carries the context and the block built so far
CompoundLoop(st, stmts, i) ==
    IF i > Len(stmts) \/ st.c.raised THEN st
    ELSE CompoundLoop(CompoundAppend(st.r, handle_statement(st.c, stmts[i])),
                      stmts, i + 1)

\* the empty list answered with an error diagnostic
CompoundOfNothingAsError(c) ==
    [c |-> log_with_loc(c, "Expected at least one statement. Returning a dummy.", "ERROR"),
     r |-> newCompoundStatement]

\* lines 464-468
CompoundOfNothing(c) ==
    [c |-> log_with_loc(c, "Expected at least one statement. Returning a dummy.", "WARN"),
     r |-> newCompoundStatement]

\* lines 463-487
make_compound_statement(c, stmts) ==
    Finish(c, IF Len(stmts) = 0 THEN CompoundOfNothing(c)
              ELSE CompoundLoop([c |-> c, r |-> newCompoundStatement], stmts, 1),
           "make_compound_statement", stmts)

\* an unsupported statement that stops the pass
UnimplementedRaises(c) ==
    [c |-> RaiseError(c, "NotImplementedError"), r |-> newStatement("")]

\* the unsupported statement kinds: a diagnostic and an empty statement
Unimplemented(c) ==
    [c |-> log_with_loc(c, "NOT_IMPLEMENTED", "ERROR"), r |-> newStatement("")]

\* lines 246-252
UnexpectedStatement(c) ==
    [c |-> log_with_loc(log_with_loc(c, "NOT_IMPLEMENTED", "ERROR"),
                        "Received unexpected stmt", "INFO"),
     r |-> newStatement("")]

\* lines 56-67
SuperClasses(bases) ==
    LET names == SelectSeq(bases, LAMBDA b : b.kind = "Name")
    IN  [i \in 1..Len(names) |-> names[i].id]

BasesDiagnostics(c, bases) ==
    LogTimes(c, Len(SelectSeq(bases, LAMBDA b : b.kind # "Name")),
             "Expected a name", "ERROR")

\* line 74: which statements of a class body are lowered as methods
IsMethodNode(s) == s.kind = "FunctionDef"

\* lines 78-79
WrapClassChild(s) == IF is_declaration(s) THEN wrap_declaration_to_stmt(s) ELSE s

\* lines 75-76
ClassAddMethod(cls, res) ==
    [c |-> res.c, r |-> [cls EXCEPT !.methods = Append(@, res.r)]]

\* lines 77-80
ClassAddStatement(cls, res) ==
    [c |-> res.c,
     r |-> [cls EXCEPT !.statements = Append(@, WrapClassChild(res.r))]]

\* lines 73-80: st carries the context and the record built so far
ClassBodyLoop(st, body, i) ==
    IF i > Len(body) \/ st.c.raised THEN st
    ELSE IF IsMethodNode(body[i])
    THEN ClassBodyLoop(
             ClassAddMethod(st.r, handle_function_or_method(st.c, body[i], st.r)),
             body, i + 1)
    ELSE ClassBodyLoop(ClassAddStatement(st.r, handle_statement(st.c, body[i])),
                       body, i + 1)

\* lines 53-68
NewRecord(stmt) ==
    [node |-> "RecordDeclaration", name |-> stmt.name,
     superClasses |-> SuperClasses(stmt.bases), methods |-> <<>>,
     statements |-> <<>>, fields |-> <<>>]

\* line 70
ClassOpened(c, cls) == [c |-> enterScope(c, cls), r |-> cls]

\* lines 71-72 and 81-82: keywords and decorators are only complained about
ClassComplaints(st, n) ==
    [st EXCEPT !.c = LogTimes(@, n, "NOT_IMPLEMENTED", "ERROR")]

\* lines 83-85: the scope is left and the record is registered; the record
\* object holds the fields that line 648 added to it
ClassClosed(st) ==
    Registered(leaveScope(st.c, st.r),
               IF st.c.raised THEN st.r
               ELSE [st.r EXCEPT !.fields = st.c.sm[Len(st.c.sm)].fields])

\* lines 52-85
HandleClassDef(c, stmt) ==
    ClassClosed(
        ClassComplaints(
            ClassBodyLoop(
                ClassComplaints(
                    ClassOpened(BasesDiagnostics(c, stmt.bases), NewRecord(stmt)),
                    Len(stmt.keywords)),
                stmt.body, 1),
            Len(stmt.decorator_list)))

\* lines 165-180 and 195-209: each alias declares a Variable
ImportDeclare(c, v, decl_stmt) ==
    [c |-> addDeclaration(c, v),
     r |-> [decl_stmt EXCEPT !.declarations = Append(@, v)]]

\* lines 164-180 and 194-209: st carries the context and the statement
ImportLoop(st, names, i) ==
    IF i > Len(names) THEN st
    ELSE ImportLoop(ImportDeclare(st.c,
             newVariableDeclaration(
                 IF names[i].asname # "" THEN names[i].asname ELSE names[i].name,
                 UnknownType),
             st.r), names, i + 1)

\* lines 156-180 and 181-209
HandleImport(c, stmt) ==
    ImportLoop([c |-> c,
                r |-> [node |-> "DeclarationStatement", declarations |-> <<>>]],
               stmt.names, 1)

\* lines 109-124
WhileStatement(expr, body, stmt) ==
    [c |-> LogIf(body.c, Len(stmt.orelse) # 0,
                 "orelse is currently not supported", "ERROR"),
     r |-> [node |-> "WhileStatement",
            condition |-> IF is_declaration(expr) THEN None ELSE expr,
            conditionDeclaration |-> IF is_declaration(expr) THEN expr ELSE None,
            statement |-> body.r]]

\* lines 108-125
HandleWhile(c, stmt) ==
    WhileStatement(LowerExpression(stmt.test),
                   make_compound_statement(handle_expression(c, stmt.test),
                                           stmt.body),
                   stmt)

\* lines 127-138
IfStatement(body, orelse, stmt) ==
    [c |-> orelse.c,
     r |-> [node |-> "IfStatement", condition |-> LowerExpression(stmt.test),
            thenStatement |-> body.r, elseStatement |-> orelse.r]]

\* lines 132-137
IfElse(body, stmt) ==
    IfStatement(body,
                IF Len(stmt.orelse) # 0
                THEN make_compound_statement(body.c, stmt.orelse)
                ELSE [c |-> body.c, r |-> None],
                stmt)

\* lines 126-138
HandleIf(c, stmt) ==
    IfElse(make_compound_statement(handle_expression(c, stmt.test), stmt.body),
           stmt)

\* lines 232-245
TryStatement(try_block, finally_block, stmt) ==
    [c |-> LogIf(LogIf(finally_block.c, Len(stmt.orelse) # 0,
                       "NOT_IMPLEMENTED", "ERROR"),
                 Len(stmt.handlers) # 0, "Try handlers. NOT_IMPLEMENTED", "ERROR"),
     r |-> [node |-> "TryStatement", tryBlock |-> try_block.r,
            finallyBlock |-> finally_block.r]]

\* lines 235-236
TryFinally(try_block, stmt) ==
    TryStatement(try_block,
                 make_compound_statement(try_block.c, stmt.finalbody), stmt)

\* lines 231-245
HandleTry(c, stmt) ==
    TryFinally(make_compound_statement(c, stmt.body), stmt)

\* lines 86-92
HandleReturn(c, stmt) ==
    IF stmt.value # NoneAst
    THEN [c |-> handle_expression(c, stmt.value),
          r |-> [node |-> "ReturnStatement",
                 returnValue |-> LowerExpression(stmt.value)]]
    ELSE [c |-> c, r |-> [node |-> "ReturnStatement", returnValue |-> None]]

UnsupportedKinds ==
    {"Delete", "With", "AsyncWith", "Raise", "Assert", "Global", "Nonlocal",
     "Continue"}

\* lines 47-252
handle_statement_impl(c, stmt) ==
    CASE stmt.kind \in {"FunctionDef", "AsyncFunctionDef"} ->
           handle_function_or_method(c, stmt, None)
      [] stmt.kind = "ClassDef" -> HandleClassDef(c, stmt)
      [] stmt.kind = "Return" -> HandleReturn(c, stmt)
      [] stmt.kind \in {"Assign", "AugAssign", "AnnAssign"} -> handle_assign(c, stmt)
      [] stmt.kind \in {"For", "AsyncFor"} -> handle_for(c, stmt)
      [] stmt.kind = "While" -> HandleWhile(c, stmt)
      [] stmt.kind = "If" -> HandleIf(c, stmt)
      [] stmt.kind = "Import" -> HandleImport(c, stmt)
      [] stmt.kind = "ImportFrom" ->
           HandleImport(log_with_loc(c, "Cannot correctly handle import from", "ERROR"),
                        stmt)
      [] stmt.kind = "Expr" ->
           [c |-> handle_expression(c, stmt.value), r |-> LowerExpression(stmt.value)]
      [] stmt.kind = "Pass" -> [c |-> c, r |-> [node |-> "EmptyStatement"]]
      [] stmt.kind = "Break" -> [c |-> c, r |-> [node |-> "BreakStatement"]]
      [] stmt.kind = "Try" -> HandleTry(c, stmt)
      [] stmt.kind \in UnsupportedKinds -> Unimplemented(c)
      [] OTHER -> UnexpectedStatement(c)

\* lines 36-44
handle_statement(c, stmt) ==
    IF c.raised THEN [c |-> c, r |-> None]
    ELSE Finish(c, handle_statement_impl(Started(c, "handle_statement", stmt), stmt),
                "handle_statement", stmt)

(***************************************************************************)
(* Functions, methods and constructors                                     *)
(***************************************************************************)
\* the source text of the expressions that name annotations
get_src_code(e) ==
    IF e.kind = "Attribute" /\ e.value.kind = "Name" /\ e.value.id = "app"
       /\ e.attr = "route"
    THEN "app.route"
    ELSE IF e.kind = "Name" THEN e.id ELSE "<code>"

\* lines 406-417; the annotation of a parameter is read as a name
handle_argument(c, arg) ==
    IF arg.annotation # NoneAst /\ arg.annotation.kind # "Name"
    THEN RaiseError(c, "AttributeError")
    ELSE LET tpe == IF arg.annotation # NoneAst THEN arg.annotation.id
                    ELSE UnknownType
             pvd == [node |-> "ParamVariableDeclaration", name |-> arg.arg,
                     type |-> tpe]
         IN  addDeclaration(c, pvd)

ArgumentsLoop(c, args, i) ==
    IF i > Len(args) THEN c
    ELSE ArgumentsLoop(handle_argument(c, args[i]), args, i + 1)

\* lines 283-293
NewFunctionLike(name, record) ==
    [node |-> IF record # None
              THEN IF name = "__init__" THEN "ConstructorDeclaration"
                   ELSE "MethodDeclaration"
              ELSE "FunctionDeclaration",
     name |-> name,
     recordDeclaration |-> IF record # None THEN record.name ELSE "",
     receiver |-> None, body |-> None, annotations |-> <<>>]

\* lines 300-320
BindReceiverAndArguments(c, f, args, record) ==
    IF record # None
    THEN IF Len(args) > 0
         THEN LET recv == newVariableDeclaration(args[1].arg, record.name)
                  c1 == addDeclaration(setReceiver(c, recv), recv)
              IN  [c |-> ArgumentsLoop(c1, args, 2),
                   r |-> [f EXCEPT !.receiver = recv]]
         ELSE [c |-> log_with_loc(c, "Expected to find the receiver but got nothing...", "ERROR"),
               r |-> f]
    ELSE [c |-> ArgumentsLoop(c, args, 1), r |-> f]

\* lines 322-334
UnmodelledArguments(c, a) ==
    LogTimes(
        LogIf(LogTimes(LogTimes(LogIf(c, a.vararg, "NOT_IMPLEMENTED", "ERROR"),
                                a.kwonlyargs, "NOT_IMPLEMENTED", "ERROR"),
                       a.kw_defaults, "NOT_IMPLEMENTED", "ERROR"),
              a.kwarg, "NOT_IMPLEMENTED", "ERROR"),
        a.defaults, "Default args. NOT_IMPLEMENTED", "ERROR")

\* lines 385-390
KeywordsLoop(c, keywords, i) ==
    IF i > Len(keywords) THEN c
    ELSE KeywordsLoop(handle_expression(c, keywords[i].value), keywords, i + 1)

KeywordMembers(keywords) ==
    [i \in 1..Len(keywords) |->
        [name |-> keywords[i].arg, value |-> LowerExpression(keywords[i].value)]]

\* The loop over the decorators keeps st.c, the context; st.annotation, the
\* local variable "annotation": 0 while it is unbound, else the annotation
\* object it refers to; st.heap, the annotation objects created so far; and
\* st.annotations, the list "annotations" (references into the heap).

\* lines 347-372: a new annotation for an attribute or a name, a diagnostic
\* and nothing else for any other callee
DecoratorAnnotation(st, func) ==
    IF func.kind = "Attribute"
    THEN [st EXCEPT !.c = handle_expression(@, func),
                    !.heap = Append(@, [name |-> get_src_code(LowerExpression(func).code),
                                        members |-> <<>>]),
                    !.annotation = Len(st.heap) + 1]
    ELSE IF func.kind = "Name"
    THEN [st EXCEPT !.c = handle_expression(@, func),
                    !.heap = Append(@, [name |-> LowerExpression(func).name,
                                        members |-> <<>>]),
                    !.annotation = Len(st.heap) + 1]
    ELSE [st EXCEPT !.c = log_with_loc(@, "NOT_IMPLEMENTED", "ERROR")]

\* lines 375-390: the expression lowerer sees the first argument and the
\* keyword values
DecoratorArguments(st, decorator) ==
    [st EXCEPT !.c = KeywordsLoop(IF Len(decorator.args) > 0
                                  THEN handle_expression(@, decorator.args[1])
                                  ELSE @,
                                  decorator.keywords, 1)]

\* lines 345-390: the list "members" of one decorator
DecoratorMembers(decorator) ==
    (IF decorator.func.kind = "Attribute"
     THEN <<[name |-> "receiver", value |-> LowerExpression(decorator.func).base]>>
     ELSE <<>>)
    \o (IF Len(decorator.args) > 0
        THEN <<[name |-> "value", value |-> LowerExpression(decorator.args[1])]>>
        ELSE <<>>)
    \o KeywordMembers(decorator.keywords)

\* lines 392-393: the members go to what "annotation" refers to, and that
\* object is appended to the list
DecoratorAttach(st, members) ==
    IF st.annotation = 0
    THEN [st EXCEPT !.c = RaiseError(@, "UnboundLocalError")]
    ELSE [st EXCEPT !.heap[st.annotation].members = members,
                    !.annotations = Append(@, st.annotation)]

\* lines 345-393: one turn of the loop
DecoratorStep(st, decorator) ==
    IF decorator.kind # "Call"
    THEN [st EXCEPT !.c = RaiseError(@, "AttributeError")]
    ELSE DecoratorAttach(
             DecoratorArguments(DecoratorAnnotation(st, decorator.func), decorator),
             DecoratorMembers(decorator))

\* lines 339-393
DecoratorLoop(st, decorator_list, i) ==
    IF i > Len(decorator_list) \/ st.c.raised THEN st
    ELSE DecoratorLoop(DecoratorStep(st, decorator_list[i]), decorator_list, i + 1)

\* line 395: the annotation objects the list refers to, each with its identity
AttachedAnnotations(st) ==
    [i \in 1..Len(st.annotations) |->
        [id |-> st.annotations[i],
         name |-> st.heap[st.annotations[i]].name,
         members |-> st.heap[st.annotations[i]].members]]

\* line 295
FunctionOpened(c, f) == [c |-> enterScope(c, f), r |-> f]

\* lines 297-320
FunctionBound(st, node, record) ==
    BindReceiverAndArguments(
        LogTimes(st.c, node.args.posonlyargs, "NOT_IMPLEMENTED", "ERROR"),
        st.r, node.args.args, record)

\* line 337
WithBody(f, body) == [c |-> body.c, r |-> [f EXCEPT !.body = body.r]]

\* lines 322-337
FunctionBody(st, node) ==
    IF Len(node.body) > 0
    THEN WithBody(st.r, make_compound_statement(
                            UnmodelledArguments(st.c, node.args), node.body))
    ELSE [st EXCEPT !.c = UnmodelledArguments(@, node.args)]

\* line 395
WithAnnotations(f, decorated) ==
    [c |-> decorated.c,
     r |-> [f EXCEPT !.annotations = AttachedAnnotations(decorated)]]

\* lines 339-395
FunctionDecorated(st, decorator_list) ==
    WithAnnotations(st.r,
        DecoratorLoop([c |-> st.c, annotation |-> 0, heap |-> <<>>,
                       annotations |-> <<>>], decorator_list, 1))

\* lines 397-401
FunctionClosed(st, node) ==
    Registered(leaveScope(LogIf(st.c, node.returns, "NOT_IMPLEMENTED", "ERROR"),
                          st.r),
               st.r)

\* lines 255-403
handle_function_or_method(c, node, record) ==
    IF node.kind \notin {"FunctionDef", "AsyncFunctionDef"}
    THEN [c |-> log_with_loc(c, "Expected either ast.FunctionDef or ast.AsyncFunctionDef", "ERROR"),
          r |-> NewFunctionLike("DUMMY", None)]
    ELSE Finish(c,
             FunctionClosed(
                 FunctionDecorated(
                     FunctionBody(
                         FunctionBound(
                             FunctionOpened(
                                 LogIf(c, node.kind = "AsyncFunctionDef",
                                       "async is currently not supported", "ERROR"),
                                 NewFunctionLike(node.name, record)),
                             node, record),
                         node),
                     node.decorator_list),
                 node),
             "handle_function_or_method", node)

(***************************************************************************)
(* Loops                                                                   *)
(***************************************************************************)
\* the loop variable declared without the type of the iterable
ForTargetUntyped(c, stmt, it) ==
    LET target == LowerExpression(stmt.target)
        c1 == handle_expression(c, stmt.target)
    IN  IF resolveReference(c1.sm, target) = None
        THEN LET v == newVariableDeclaration(target.name, UnknownType)
             IN  [c |-> addDeclaration(c1, v), r |-> wrap_declaration_to_stmt(v)]
        ELSE [c |-> c1, r |-> target]

\* lines 441-450
ForTarget(c, stmt, it) ==
    LET target == LowerExpression(stmt.target)
        c1 == handle_expression(c, stmt.target)
        resolved_target == resolveReference(c1.sm, target)
    IN  IF resolved_target = None
        THEN LET v == newVariableDeclaration(target.name, it.type)
             IN  [c |-> addDeclaration(c1, v), r |-> wrap_declaration_to_stmt(v)]
        ELSE [c |-> c1, r |-> target]

\* lines 434-460
ForEachStatement(it, target, body, stmt) ==
    [c |-> LogIf(body.c, Len(stmt.orelse) # 0, "NOT_IMPLEMENTED", "ERROR"),
     r |-> [node |-> "ForEachStatement", iterable |-> it,
            variable |-> target.r, statement |-> body.r]]

\* lines 454-455
ForBody(it, target, stmt) ==
    ForEachStatement(it, target, make_compound_statement(target.c, stmt.body),
                     stmt)

\* lines 420-460
handle_for(c, stmt) ==
    IF stmt.kind \notin {"For", "AsyncFor"}
    THEN [c |-> log_with_loc(c, "Expected ast.AsyncFor or ast.For", "ERROR"),
          r |-> newStatement("")]
    ELSE Finish(c,
             ForBody(LowerExpression(stmt.iter),
                     ForTarget(handle_expression(
                                   LogIf(c, stmt.kind = "AsyncFor",
                                         "async is currently not supported", "ERROR"),
                                   stmt.iter),
                               stmt, LowerExpression(stmt.iter)),
                     stmt),
             "handle_for", stmt)

(***************************************************************************)
(* The statements that are lowered                                         *)
(***************************************************************************)
Assign(targets, value) == [kind |-> "Assign", targets |-> targets, value |-> value]

AnnAssign(target, value) == [kind |-> "AnnAssign", target |-> target, value |-> value]

AugAssign(target, op, value) ==
    [kind |-> "AugAssign", target |-> target, op |-> op, value |-> value]

Simple(kind) == [kind |-> kind]

Return(value) == [kind |-> "Return", value |-> value]

Expr(value) == [kind |-> "Expr", value |-> value]

Import(kind, names) == [kind |-> kind, names |-> names]

Alias(name, asname) == [name |-> name, asname |-> asname]

If(body, orelse) == [kind |-> "If", test |-> Name("c"), body |-> body, orelse |-> orelse]

While(body, orelse) ==
    [kind |-> "While", test |-> Name("c"), body |-> body, orelse |-> orelse]

Try(body, handlers, orelse, finalbody) ==
    [kind |-> "Try", body |-> body, handlers |-> handlers, orelse |-> orelse,
     finalbody |-> finalbody]

For(kind, target, iter, body, orelse) ==
    [kind |-> kind, target |-> target, iter |-> iter, body |-> body,
     orelse |-> orelse]

Arg(name) == [arg |-> name, annotation |-> NoneAst]

Arguments(args) ==
    [posonlyargs |-> 0, args |-> args, vararg |-> FALSE, kwonlyargs |-> 0,
     kw_defaults |-> 0, kwarg |-> FALSE, defaults |-> 0]

FunctionDef(kind, name, args, body, decorator_list) ==
    [kind |-> kind, name |-> name, args |-> args, body |-> body,
     decorator_list |-> decorator_list, returns |-> FALSE]

ClassDef(name, bases, body) ==
    [kind |-> "ClassDef", name |-> name, bases |-> bases, keywords |-> <<>>,
     body |-> body, decorator_list |-> <<>>]

SelfY == Attribute(Name("self"), "y")

Targets ==
    {Name("x"), SelfY, Attribute(Name("o"), "y"),
     Attribute(Call(Name("g"), <<>>, <<>>), "y"), Subscript}

AssignLeaves ==
    {Assign(<<t>>, Constant) : t \in Targets}
    \cup {AnnAssign(t, NoneAst) : t \in Targets}
    \cup {AugAssign(t, "+=", Constant) : t \in Targets}
    \cup {AnnAssign(Name("x"), Constant), Assign(<<SelfY>>, Name("x")),
          Assign(<<Name("x"), Name("x")>>, Constant), Assign(<<>>, Constant)}

UnsupportedLeaves == {Simple(k) : k \in UnsupportedKinds \cup {"Match"}}

OtherLeaves ==
    {Simple("Pass"), Simple("Break"), Return(NoneAst), Return(Name("x")),
     Expr(Call(Name("g"), <<>>, <<>>)),
     Import("Import", <<Alias("x", "")>>),
     Import("ImportFrom", <<Alias("m", "x"), Alias("y", "")>>)}

Leaves == AssignLeaves \cup UnsupportedLeaves \cup OtherLeaves

XIsOne == Assign(<<Name("x")>>, Constant)

SelfYIsOne == Assign(<<SelfY>>, Constant)

OtherYIsOne == Assign(<<Attribute(Name("o"), "y")>>, Constant)

Pairs ==
    {<<a, b>> : a \in {XIsOne, SelfYIsOne, OtherYIsOne, Simple("Raise")},
                b \in {XIsOne, SelfYIsOne, AugAssign(Name("x"), "+=", Constant),
                       Simple("Pass"), Simple("Raise")}}

Bodies == {<<l>> : l \in Leaves} \cup Pairs

FewBodies == {<<Simple("Pass")>>, <<XIsOne>>, <<SelfYIsOne>>}

ForStatements ==
    {For(k, t, it, b, e) :
        k \in {"For"}, t \in {Name("x"), SelfY, Subscript},
        it \in {ListExpr, Name("x")}, b \in {<<Simple("Pass")>>, <<XIsOne>>},
        e \in {<<>>}}
    \cup {For("AsyncFor", Name("x"), ListExpr, <<Simple("Pass")>>, <<Simple("Pass")>>)}

Blocks ==
    {If(b, <<>>) : b \in Bodies}
    \cup {If(<<Simple("Pass")>>, <<XIsOne>>)}
    \cup {While(b, e) : b \in FewBodies, e \in {<<>>, <<Simple("Pass")>>}}
    \cup {Try(b, <<>>, <<>>, f) : b \in FewBodies, f \in {<<>>, <<XIsOne>>}}
    \cup {Try(<<Simple("Pass")>>, <<Simple("Pass")>>, <<Simple("Pass")>>, <<>>)}
    \cup ForStatements

ArgLists == {<<>>, <<Arg("self")>>, <<Arg("self"), Arg("x")>>}

AnnotatedArgLists ==
    {<<Arg("self"), [arg |-> "x", annotation |-> Name("int")]>>,
     <<[arg |-> "self", annotation |-> Subscript],
       [arg |-> "x", annotation |-> Name("int")]>>,
     <<Arg("self"), [arg |-> "x", annotation |-> Subscript]>>}

AllUnmodelled(args) ==
    [posonlyargs |-> 1, args |-> args, vararg |-> TRUE, kwonlyargs |-> 1,
     kw_defaults |-> 1, kwarg |-> TRUE, defaults |-> 1]

AppRoute == Call(Attribute(Name("app"), "route"), <<Constant>>, <<>>)

Decorators ==
    {AppRoute,
     Call(Name("dec"), <<>>, <<[arg |-> "k", value |-> Constant]>>),
     Call(Call(Name("g"), <<>>, <<>>), <<>>, <<>>),
     Name("staticmethod")}

DecoratorLists ==
    {<<d>> : d \in Decorators} \cup {<<d, e>> : d, e \in Decorators}

Method(body) ==
    FunctionDef("FunctionDef", "f", Arguments(<<Arg("self")>>), body, <<>>)

Functions ==
    {Method(b) : b \in Bodies}
    \cup {FunctionDef(k, n, Arguments(a), b, <<>>) :
             k \in {"FunctionDef", "AsyncFunctionDef"}, n \in {"f", "__init__"},
             a \in ArgLists, b \in FewBodies}
    \cup {FunctionDef("FunctionDef", "f", Arguments(<<Arg("self")>>),
                      <<Simple("Pass")>>, d) : d \in DecoratorLists}
    \cup {FunctionDef("FunctionDef", "f", Arguments(a), <<Simple("Pass")>>, <<>>) :
             a \in AnnotatedArgLists}
    \cup {FunctionDef("FunctionDef", "f", AllUnmodelled(a), <<>>, <<>>) :
             a \in ArgLists}
    \cup {[FunctionDef("FunctionDef", "f", Arguments(<<>>), <<Simple("Pass")>>, <<>>)
              EXCEPT !.returns = TRUE]}

FewFunctions ==
    {FunctionDef(k, "f", Arguments(a), b, <<>>) :
        k \in {"FunctionDef", "AsyncFunctionDef"},
        a \in {<<>>, <<Arg("self")>>}, b \in {<<SelfYIsOne>>, <<XIsOne>>}}

Classes ==
    {ClassDef("A", <<Name("Base")>>, <<s>>) :
        s \in Leaves \cup Functions \cup ForStatements}
    \cup {ClassDef("A", <<>>, <<a, b>>) :
             a \in {XIsOne, Method(<<SelfYIsOne>>)},
             b \in {XIsOne, SelfYIsOne, Method(<<SelfYIsOne>>), Method(<<XIsOne>>)}}
    \cup {[ClassDef("A", <<Name("Base"), Attribute(Name("m"), "Base")>>,
                    <<XIsOne>>)
              EXCEPT !.keywords = <<1>>, !.decorator_list = <<1>>]}

\* a class or a function inside a function, a function inside a block
Nested ==
    {Method(<<ClassDef("A", <<>>, <<l>>)>>) : l \in AssignLeaves}
    \cup {FunctionDef("FunctionDef", "f", Arguments(<<>>),
                      <<ClassDef("A", <<>>, <<l>>)>>, <<>>) : l \in AssignLeaves}
    \cup {Method(<<f>>) : f \in FewFunctions}
    \cup {Method(<<If(<<l>>, <<>>)>>) : l \in Leaves}
    \cup {If(<<f>>, <<>>) : f \in FewFunctions}
    \cup {If(<<ClassDef("A", <<>>, <<XIsOne>>)>>, <<>>)}
    \cup {If(<<FunctionDef("FunctionDef", "f", Arguments(<<Arg("self")>>),
                           <<Simple("Pass")>>, d)>>, <<>>) : d \in DecoratorLists}

Deep ==
    {ClassDef("A", <<>>, <<Method(<<If(<<l>>, <<>>)>>)>>) : l \in AssignLeaves}
    \cup {ClassDef("A", <<>>, <<Method(<<f>>)>>) : f \in FewFunctions}
    \cup {ClassDef("A", <<>>, <<Method(<<ClassDef("B", <<>>, <<l>>)>>)>>) :
             l \in AssignLeaves}
    \cup {ClassDef("A", <<>>, <<ClassDef("B", <<>>, <<l>>)>>) : l \in AssignLeaves}
    \cup {ClassDef("A", <<>>, <<If(<<f>>, <<>>)>>) : f \in FewFunctions}

Stmts == Leaves \cup Blocks \cup Functions \cup Classes \cup Nested \cup Deep

(***************************************************************************)
(* The pass over a module body                                             *)
(***************************************************************************)
GlobalScope == <<NewFrame("global", "")>>

Init ==
    /\ sm = GlobalScope
    /\ pc = "idle"
    /\ input = NoneAst
    /\ result = None
    /\ log = <<>>
    /\ before = GlobalScope
    /\ count = 0

\* what the caller sees of one call of the dispatcher: the scope stack and
\* the messages it leaves, and the node it returned unless it raised
Outcome(res) ==
    /\ sm' = res.c.sm
    /\ log' = res.c.log
    /\ pc' = IF res.c.raised THEN "raised" ELSE "returned"
    /\ result' = IF res.c.raised THEN None ELSE res.r

\* the next statement of the module body is lowered
Lower(stmt) ==
    /\ pc = "idle"
    /\ count < MaxTop
    /\ Outcome(handle_statement([sm |-> sm, log |-> <<>>, raised |-> FALSE], stmt))
    /\ input' = stmt
    /\ before' = sm
    /\ count' = count + 1

\* the caller goes on to the statement that follows
Advance ==
    /\ pc = "returned"
    /\ pc' = "idle"
    /\ input' = NoneAst
    /\ result' = None
    /\ log' = <<>>
    /\ before' = sm
    /\ UNCHANGED <<sm, count>>

Next == (\E stmt \in Stmts : Lower(stmt)) \/ Advance

Spec == Init /\ [][Next]_vars

(***************************************************************************)
(* Properties                                                              *)
(***************************************************************************)
Events == 1..Len(log)

IsEnd(i, fn) == log[i].ev = "End" /\ log[i].fn = fn

IsDiagnostic(i, loglevel) == log[i].ev = "log" /\ log[i].level = loglevel

Registers(i) == log[i].ev \in {"addDeclaration", "addField"}

SingleTarget(stmt) ==
    \/ stmt.kind \in {"AnnAssign", "AugAssign"}
    \/ stmt.kind = "Assign" /\ Len(stmt.targets) = 1

LhsOf(stmt) == LowerExpression(AssignTarget(stmt))

RhsOf(stmt) == IF stmt.value # NoneAst THEN LowerExpression(stmt.value) ELSE None

NameOrMember(n) == n.node \in {"DeclaredReferenceExpression", "MemberExpression"}

Known(s, n) == \E k \in 1..Len(s) : \E d \in 1..Len(s[k].decls) : s[k].decls[d].name = n.name

\* a finished handle_assign of a single-target assignment to a name or member
AssignCase(i) ==
    /\ IsEnd(i, "handle_assign")
    /\ SingleTarget(log[i].stmt)
    /\ NameOrMember(LhsOf(log[i].stmt))

Rebinds(i) ==
    /\ log[i].r.node = "BinaryOperator"
    /\ log[i].r.operatorCode = "="
    /\ log[i].r.lhs = LhsOf(log[i].stmt)
    /\ log[i].r.rhs = RhsOf(log[i].stmt)
    /\ log[i].post = log[i].pre
    /\ \A j \in log[i].at..i : ~Registers(j)

\* C1: a single-target assignment (simple, annotated or augmented) to a name
\* or member that resolves in scope yields a "=" binary operator over the
\* lowered sides; it declares nothing and registers nothing, in any frame
C1_ResolvedIsRebinding ==
    \A i \in Events :
        AssignCase(i) /\ Known(log[i].pre, LhsOf(log[i].stmt)) => Rebinds(i)

\* C1 happens: a resolved assignment inside a method of a class
C1_Witness ==
    \E i \in Events :
        /\ AssignCase(i) /\ Known(log[i].pre, LhsOf(log[i].stmt))
        /\ isInRecord(log[i].pre) /\ isInFunction(log[i].pre)
        /\ Rebinds(i)
        /\ log[i].r.rhs # None

RegisteredOnTop(i) ==
    log[i].post = [log[i].pre EXCEPT ![Len(log[i].pre)].decls =
                       Append(@, DeclEntry(log[i].r))]

ClassLevelCase(i) ==
    /\ AssignCase(i)
    /\ ~Known(log[i].pre, LhsOf(log[i].stmt))
    /\ isInRecord(log[i].pre) /\ ~isInFunction(log[i].pre)

FieldOfRecord(i) ==
    /\ log[i].r.node = "FieldDeclaration"
    /\ log[i].r.type = (IF log[i].stmt.value # NoneAst
                        THEN RhsOf(log[i].stmt).type ELSE UnknownType)
    /\ log[i].pre[Len(log[i].pre)].kind = "record"
    /\ RegisteredOnTop(i)

\* C2: an unresolved single-target assignment in a record and in no function
\* yields a Field, typed from the right-hand side if there is one and unknown
\* otherwise, registered in the frame of the enclosing record; never a Variable
C2_ClassLevelIsField ==
    \A i \in Events : ClassLevelCase(i) => FieldOfRecord(i)

\* C2 happens: a class-level attribute with a value became a typed Field
C2_Witness ==
    \E i \in Events :
        /\ ClassLevelCase(i) /\ FieldOfRecord(i)
        /\ log[i].r.type = "int"

MemberInMethodCase(i) ==
    /\ AssignCase(i)
    /\ is_member_expression(LhsOf(log[i].stmt))
    /\ ~Known(log[i].pre, LhsOf(log[i].stmt))
    /\ isInRecord(log[i].pre) /\ isInFunction(log[i].pre)

\* the base of the target is a name, the current function has a receiver and
\* the two names are equal
BaseNamesReceiver(i) ==
    LET s == log[i].pre
        f == s[InnermostIndex(s, "function")]
        base == LhsOf(log[i].stmt).base
    IN  /\ base.node = "DeclaredReferenceExpression"
        /\ f.receiver # None
        /\ f.receiver.name = base.name

FieldSynthesized(i) ==
    LET s == log[i].pre
        entry == DeclEntry(log[i].r)
    IN  /\ log[i].r.node = "FieldDeclaration"
        /\ log[i].r.name = LhsOf(log[i].stmt).name
        /\ log[i].post = [s EXCEPT ![Len(s)].decls = Append(@, entry),
                                   ![InnermostIndex(s, "record")].fields =
                                       Append(@, entry)]
        /\ \A j \in log[i].at..i :
               log[j].ev = "addDeclaration" => log[j].decl.node = "FieldDeclaration"

Rejected(i) ==
    /\ log[i].r = newStatement("DUMMY")
    /\ log[i].post = log[i].pre
    /\ \A j \in log[i].at..i : ~Registers(j)
    /\ \E j \in log[i].at..i : IsDiagnostic(j, "ERROR")

\* C3: an unresolved member target inside a function nested in a record
\* yields a Field, registered and added to the current record's fields, exactly
\* when its base is a name equal to the name of the current function's
\* receiver; otherwise a placeholder with an error diagnostic and no change
C3_FieldIffReceiver ==
    \A i \in Events :
        MemberInMethodCase(i) =>
            IF BaseNamesReceiver(i) THEN FieldSynthesized(i) ELSE Rejected(i)

\* C3 happens: one finished call accepted self.y and another rejected o.y
C3_Witness ==
    /\ \E i \in Events :
           MemberInMethodCase(i) /\ BaseNamesReceiver(i) /\ FieldSynthesized(i)
    /\ \E i \in Events :
           MemberInMethodCase(i) /\ ~BaseNamesReceiver(i) /\ Rejected(i)

FrameIds(s) == [k \in 1..Len(s) |-> <<s[k].kind, s[k].name>>]

\* C4: when handle_statement is over the scope stack holds the frames it held
\* before, and every enterScope of the call has its leaveScope
C4_ScopeBalanced ==
    /\ pc = "returned" => FrameIds(sm) = FrameIds(before)
    /\ \A i \in Events :
           IsEnd(i, "handle_statement") =>
               FrameIds(log[i].post) = FrameIds(log[i].pre)
    /\ \A i \in Events :
           log[i].ev = "enterScope" =>
               \E j \in (i + 1)..Len(log) :
                   /\ log[j].ev = "leaveScope"
                   /\ log[j].name = log[i].name
                   /\ log[j].depth = log[i].depth

FunctionLike(s) == s.kind \in {"FunctionDef", "AsyncFunctionDef"}

FunctionLikeIn(body) == SelectSeq(body, FunctionLike)

IsFreeFunctionStatement(n) ==
    /\ n.node = "DeclarationStatement"
    /\ \E k \in 1..Len(n.declarations) :
           n.declarations[k].node = "FunctionDeclaration"

\* C5: every function-like definition directly in a class body, synchronous
\* or asynchronous, becomes a method of the record (a Constructor when it is
\* named __init__, a Method otherwise), never a free Function
C5_ClassBodyDefsAreMethods ==
    \A i \in Events :
        IsEnd(i, "handle_statement") /\ log[i].stmt.kind = "ClassDef" =>
            LET defs == FunctionLikeIn(log[i].stmt.body)
                cls == log[i].r
            IN  /\ Len(cls.methods) = Len(defs)
                /\ \A k \in 1..Len(defs) :
                       /\ cls.methods[k].name = defs[k].name
                       /\ cls.methods[k].recordDeclaration = cls.name
                       /\ cls.methods[k].node =
                              IF defs[k].name = "__init__"
                              THEN "ConstructorDeclaration"
                              ELSE "MethodDeclaration"
                /\ \A k \in 1..Len(cls.statements) :
                       ~IsFreeFunctionStatement(cls.statements[k])

IsStart(j) == log[j].ev = "Start"

\* the events of the call that ended at i which precede the first statement
\* of its body
Prologue(i) ==
    {j \in log[i].at..i : \A k \in log[i].at..j : ~IsStart(k)}

Lowerings(i) == {j \in Prologue(i) : log[j].ev = "handle_expression"}

ForCase(i) == IsEnd(i, "handle_for") /\ log[i].stmt.kind \in {"For", "AsyncFor"}

IterableFirst(i) ==
    \E a, b \in Prologue(i) :
        /\ a < b
        /\ Lowerings(i) = {a, b}
        /\ log[a].expr = log[i].stmt.iter
        /\ log[b].expr = log[i].stmt.target

LoopVariableDeclared(i) ==
    LET target == LowerExpression(log[i].stmt.target)
        it == LowerExpression(log[i].stmt.iter)
        v == newVariableDeclaration(target.name, it.type)
    IN  /\ log[i].r.variable = wrap_declaration_to_stmt(v)
        /\ \E j \in Prologue(i) :
               /\ log[j].ev = "addDeclaration"
               /\ log[j].decl = DeclEntry(v)
               /\ log[j].depth = Len(log[i].pre)
               /\ \A a \in Lowerings(i) : a < j
               /\ \A k \in Prologue(i) : Registers(k) => k = j

LoopVariableReused(i) ==
    /\ log[i].r.variable = LowerExpression(log[i].stmt.target)
    /\ \A k \in Prologue(i) : ~Registers(k)

\* C6: handle_for lowers the iterable before the target; an unresolved target
\* becomes a Variable of the target's name and the iterable's type, registered
\* in the current scope and wrapped into a declaration statement; a resolved
\* target is itself the loop variable and nothing is declared
C6_IterableBeforeTarget ==
    \A i \in Events :
        ForCase(i) =>
            /\ IterableFirst(i)
            /\ log[i].r.iterable = LowerExpression(log[i].stmt.iter)
            /\ IF Known(log[i].pre, LowerExpression(log[i].stmt.target))
               THEN LoopVariableReused(i)
               ELSE LoopVariableDeclared(i)

\* C6 happens: an unbound loop target over a list became a Variable of type list
C6_Witness ==
    \E i \in Events :
        /\ ForCase(i)
        /\ ~Known(log[i].pre, LowerExpression(log[i].stmt.target))
        /\ LoopVariableDeclared(i)
        /\ log[i].r.variable.declarations[1].type = "list"
        /\ log[i].stmt.iter # log[i].stmt.target

\* the child at position k of the compound that ended at i comes from the
\* lowering, ended at j, of the k-th statement of the list
ChildFrom(i, k, j) ==
    /\ j \in log[i].at..i
    /\ IsEnd(j, "handle_statement")
    /\ log[j].stmt = log[i].stmt[k]
    /\ \/ log[i].r.statements[k] = log[j].r
       \/ log[i].r.statements[k] = wrap_declaration_to_stmt(log[j].r)

CompoundCase(i) == IsEnd(i, "make_compound_statement") /\ Len(log[i].stmt) > 0

\* C7: the Compound of a list of statements has one child per statement, in
\* the order of the list, and no child is a bare declaration, at any depth
C7_CompoundChildrenAreStatements ==
    \A i \in Events :
        CompoundCase(i) =>
            /\ Len(log[i].r.statements) = Len(log[i].stmt)
            /\ \A k \in 1..Len(log[i].stmt) :
                   /\ ~is_declaration(log[i].r.statements[k])
                   /\ \E j \in Events :
                          /\ ChildFrom(i, k, j)
                          /\ k > 1 => \E h \in 1..(j - 1) : ChildFrom(i, k - 1, h)

\* C7 happens: a block nested in a function holds a wrapped declaration
C7_Witness ==
    \E i \in Events :
        /\ CompoundCase(i)
        /\ Len(log[i].pre) > 1
        /\ Len(log[i].stmt) > 1
        /\ \E k \in 1..Len(log[i].r.statements) :
               log[i].r.statements[k].node = "DeclarationStatement"

NoHandlerKinds ==
    {"With", "AsyncWith", "Raise", "Assert", "Delete", "Continue", "Global",
     "Nonlocal", "Match"}

UnsupportedStart(j) ==
    /\ IsStart(j) /\ log[j].fn = "handle_statement"
    /\ log[j].stmt.kind \in NoHandlerKinds

\* the call that started at j ended with a placeholder and changed no scope
EndsAsPlaceholder(j) ==
    \E i \in (j + 1)..Len(log) :
        /\ IsEnd(i, "handle_statement") /\ log[i].at = j
        /\ log[i].r = newStatement("")
        /\ log[i].post = log[i].pre
        /\ \E d \in j..i : IsDiagnostic(d, "ERROR") /\ log[d].msg = "NOT_IMPLEMENTED"
        /\ \A d \in j..i : ~Registers(d) /\ log[d].ev # "raise"

\* the statement after position k of the block that ended at i was lowered
FollowerLowered(i, k) ==
    \E a, b \in log[i].at..i :
        /\ a < b
        /\ IsEnd(a, "handle_statement") /\ log[a].stmt = log[i].stmt[k]
        /\ IsStart(b) /\ log[b].fn = "handle_statement"
        /\ log[b].stmt = log[i].stmt[k + 1]

\* C8: with, async-with, raise, assert, delete, continue, global, nonlocal and
\* unrecognised statements yield an empty placeholder and an error diagnostic,
\* never stop the pass, leave the scope as it was, and the statements after
\* them in the block are lowered
C8_UnsupportedIsPlaceholder ==
    /\ \A j \in Events : UnsupportedStart(j) => EndsAsPlaceholder(j)
    /\ pc # "idle" /\ input.kind \in NoHandlerKinds => pc = "returned" /\ sm = before
    /\ \A i \in Events :
           CompoundCase(i) =>
               \A k \in 1..(Len(log[i].stmt) - 1) :
                   log[i].stmt[k].kind \in NoHandlerKinds => FollowerLowered(i, k)

\* C8 happens: a block went on to declare x after a raise statement
C8_Witness ==
    \E i \in Events :
        /\ CompoundCase(i)
        /\ Len(log[i].stmt) = 2
        /\ log[i].stmt[1].kind = "Raise"
        /\ FollowerLowered(i, 1)
        /\ log[i].r.statements[1] = newStatement("")
        /\ log[i].r.statements[2].node = "DeclarationStatement"

ModelledDecorator(d) == d.kind = "Call" /\ d.func.kind \in {"Attribute", "Name"}

HasReceiverMember(a) == Len(a.members) > 0 /\ a.members[1].name = "receiver"

\* C9: the annotations of a function are those of its decorators with an
\* attribute or name callee, one each and each once, attribute callees with a
\* leading "receiver" member; other decorators add none, and the lowering
\* completes with the frame popped and the function registered
C9_OneAnnotationPerDecorator ==
    pc # "idle" /\ FunctionLike(input) =>
        /\ pc = "returned"
        /\ LET ds == SelectSeq(input.decorator_list, ModelledDecorator)
               as == result.annotations
           IN  /\ Len(as) = Len(ds)
               /\ \A k, m \in 1..Len(as) : as[k].id = as[m].id => k = m
               /\ \A k \in 1..Len(as) :
                      HasReceiverMember(as[k]) <=> ds[k].func.kind = "Attribute"
        /\ sm = [before EXCEPT ![Len(before)].decls = Append(@, DeclEntry(result))]

\* C10: an augmented assignment yields a binary operator with the operator
\* code of the statement over the lowered target and value; it is never a "="
\* rebinding and never a new Variable or Field
C10_AugmentedKeepsOperator ==
    \A i \in Events :
        IsEnd(i, "handle_assign") /\ log[i].stmt.kind = "AugAssign" =>
            /\ log[i].r.node = "BinaryOperator"
            /\ log[i].r.operatorCode = handle_operator_code(log[i].stmt.op)
            /\ log[i].r.lhs = LowerExpression(log[i].stmt.target)
            /\ log[i].r.rhs = LowerExpression(log[i].stmt.value)
            /\ \A j \in log[i].at..i : ~Registers(j)
MultiTargetCase(i) ==
    /\ IsEnd(i, "handle_assign")
    /\ log[i].stmt.kind = "Assign"
    /\ Len(log[i].stmt.targets) # 1

SomeTargetUnbound(i) ==
    \E k \in 1..Len(log[i].stmt.targets) :
        /\ log[i].stmt.targets[k].kind = "Name"
        /\ ~Known(log[i].pre, LowerExpression(log[i].stmt.targets[k]))

BarePlaceholder(i) ==
    /\ log[i].r.node = "BinaryOperator"
    /\ log[i].r.operatorCode = "="
    /\ log[i].r.lhs = None
    /\ log[i].r.rhs = None
    /\ log[i].post = log[i].pre
    /\ \E j \in log[i].at..i : IsDiagnostic(j, "ERROR")
    /\ \A j \in log[i].at..i :
           ~Registers(j) /\ log[j].ev \notin {"handle_expression", "raise"}

\* C11: a simple assignment whose number of targets is not one yields an
\* error diagnostic and a "=" binary operator without operands; no side is
\* lowered, nothing is declared and the scope stays as it was
C11_MultiTargetIsPlaceholder ==
    \A i \in Events : MultiTargetCase(i) => BarePlaceholder(i)

\* C11 happens: two targets, one of them unbound, inside a method
C11_Witness ==
    \E i \in Events :
        /\ MultiTargetCase(i)
        /\ Len(log[i].stmt.targets) = 2
        /\ SomeTargetUnbound(i)
        /\ isInFunction(log[i].pre)
        /\ BarePlaceholder(i)
\* the first enterScope at or after position j
ScopeEntry(j) ==
    CHOOSE e \in j..Len(log) :
        /\ log[e].ev = "enterScope"
        /\ \A k \in j..(e - 1) : log[k].ev # "enterScope"

\* the events after the enterScope at e that precede the first statement of
\* the body and the leaveScope of that frame
ParameterPhase(e) ==
    {j \in (e + 1)..Len(log) :
        \A k \in (e + 1)..j :
            /\ ~IsStart(k)
            /\ ~(log[k].ev = "leaveScope" /\ log[k].depth = log[e].depth)}

ParameterRegistrations(e) ==
    {j \in ParameterPhase(e) : log[j].ev = "addDeclaration"}

\* what a function-like node is to register, in order: the receiver, when a
\* record of that name is given and there is a first parameter, typed as the
\* record; then a Parameter for each remaining ordinary positional parameter
ExpectedParameters(node, record) ==
    LET args == node.args.args
    IN  [k \in 1..Len(args) |->
            IF record # "" /\ k = 1
            THEN [node |-> "VariableDeclaration", name |-> args[1].arg,
                  type |-> record]
            ELSE [node |-> "ParamVariableDeclaration", name |-> args[k].arg,
                  type |-> ""]]

MatchesParameter(entry, expected) ==
    /\ entry.node = expected.node
    /\ entry.name = expected.name
    /\ expected.type # "" => entry.type = expected.type

RegistersParameters(e, node, record) ==
    LET regs == ParameterRegistrations(e)
        expected == ExpectedParameters(node, record)
    IN  /\ Cardinality(regs) = Len(expected)
        /\ \A j \in regs :
               /\ log[j].depth = log[e].depth
               /\ MatchesParameter(log[j].decl,
                                   expected[Cardinality({k \in regs : k <= j})])

CountOf(e, msg) ==
    Cardinality({j \in ParameterPhase(e) :
                    IsDiagnostic(j, "ERROR") /\ log[j].msg = msg})

\* position-only, variadic and keyword-only parameters and default values
\* are each answered with a diagnostic
UnmodelledDiagnosed(e, node) ==
    LET a == node.args
    IN  /\ CountOf(e, "NOT_IMPLEMENTED") >=
               a.posonlyargs + a.kwonlyargs + a.kw_defaults
               + (IF a.vararg THEN 1 ELSE 0) + (IF a.kwarg THEN 1 ELSE 0)
        /\ CountOf(e, "Default args. NOT_IMPLEMENTED") = a.defaults

IsMethodLike(f) == f.node \in {"MethodDeclaration", "ConstructorDeclaration"}

ReceiverOf(node, record) ==
    IF record # "" /\ Len(node.args.args) > 0
    THEN newVariableDeclaration(node.args.args[1].arg, record)
    ELSE None

\* a finished call of handle_function_or_method on a function-like node
FunctionCase(i) ==
    IsEnd(i, "handle_function_or_method") /\ FunctionLike(log[i].stmt)

\* a function-like node handed to the dispatcher: no record is given
FreeFunctionStart(j) ==
    IsStart(j) /\ log[j].fn = "handle_statement" /\ FunctionLike(log[j].stmt)

\* C12: a function-like node registers in its new frame, in source order, the
\* receiver (named after the first parameter, typed as the record, set as the
\* function's receiver) and then the other parameters when a record is given,
\* only an error diagnostic when a record is given and there is no parameter,
\* and all its parameters when no record is given; position-only, variadic and
\* keyword-only parameters and defaults are diagnosed and declare nothing
C12_ParametersRegistered ==
    /\ \A i \in Events :
           FunctionCase(i) =>
               LET e == ScopeEntry(log[i].at)
                   node == log[i].stmt
                   record == log[i].r.recordDeclaration
               IN  /\ log[e].depth = Len(log[i].pre) + 1
                   /\ RegistersParameters(e, node, record)
                   /\ UnmodelledDiagnosed(e, node)
                   /\ log[i].r.receiver = ReceiverOf(node, record)
                   /\ IsMethodLike(log[i].r) /\ Len(node.args.args) = 0 =>
                          CountOf(e, "Expected to find the receiver but got nothing...") = 1
    /\ \A j \in Events :
           FreeFunctionStart(j) =>
               /\ RegistersParameters(ScopeEntry(j), log[j].stmt, "")
               /\ UnmodelledDiagnosed(ScopeEntry(j), log[j].stmt)

EmptyCompoundCase(i) == IsEnd(i, "make_compound_statement") /\ Len(log[i].stmt) = 0

\* the call that ended at i left one message, a warning, and nothing else
OnlyWarned(i) ==
    /\ i = log[i].at + 1
    /\ IsDiagnostic(log[i].at, "WARN")

\* C13: make_compound_statement of an empty list returns a Compound without
\* children and leaves exactly one diagnostic, a warning, before it returns;
\* no error, no exception, no call of the dispatcher, no change of the scope
C13_EmptyCompoundWarns ==
    \A i \in Events :
        EmptyCompoundCase(i) =>
            /\ log[i].r.node = "CompoundStatement"
            /\ log[i].r.statements = <<>>
            /\ OnlyWarned(i)
            /\ log[i].post = log[i].pre

\* C13 happens: the empty finally block of a try statement, after a body that
\* declared a variable
C13_Witness ==
    \E i \in Events :
        /\ EmptyCompoundCase(i)
        /\ OnlyWarned(i)
        /\ log[i].r.statements = <<>>
        /\ pc = "returned" /\ input.kind = "Try"
        /\ Len(result.tryBlock.statements) = 1
        /\ result.finallyBlock = log[i].r

IsEnter(e) == log[e].ev = "enterScope"

\* l is the leaveScope of the frame that was pushed at e
PoppedAt(e, l) ==
    /\ l > e
    /\ log[l].ev = "leaveScope"
    /\ log[l].depth = log[e].depth
    /\ log[l].name = log[e].name
    /\ \A k \in (e + 1)..(l - 1) :
           ~(log[k].ev = "leaveScope" /\ log[k].depth = log[e].depth)

\* while the frame pushed at e is open, up to l, nothing is registered in a
\* frame below it
RegisteredInside(e, l) ==
    \A k \in (e + 1)..(l - 1) :
        log[k].ev = "addDeclaration" => log[k].depth >= log[e].depth

\* right after the pop at l the definition is registered in the frame that was
\* current before the push
RegisteredAfter(e, l) ==
    /\ l + 1 <= Len(log)
    /\ log[l + 1].ev = "addDeclaration"
    /\ log[l + 1].decl.name = log[e].name
    /\ log[l + 1].decl.node \in
           {"FunctionDeclaration", "MethodDeclaration", "ConstructorDeclaration",
            "RecordDeclaration"}
    /\ log[l + 1].depth = log[e].depth - 1

\* nothing but messages between the start of the handler at j and the push
PushedFirst(j) ==
    \A k \in j..(ScopeEntry(j) - 1) : log[k].ev \in {"log", "Start"}

DefinitionStart(j) ==
    /\ IsStart(j) /\ log[j].fn = "handle_statement"
    /\ log[j].stmt.kind \in {"FunctionDef", "AsyncFunctionDef", "ClassDef"}

\* C14: a function-like or class definition pushes its frame before any
\* receiver, parameter or body statement is processed; what is declared while
\* the frame is open is registered in that frame or a deeper one; the frame is
\* popped, and only then is the definition registered, once, in the frame that
\* was current before the lowering began
C14_RegistrationOrder ==
    /\ \A j \in Events :
           DefinitionStart(j) =>
               PushedFirst(j) /\ log[ScopeEntry(j)].name = log[j].stmt.name
    /\ \A i \in Events :
           FunctionCase(i) =>
               PushedFirst(log[i].at)
               /\ log[ScopeEntry(log[i].at)].name = log[i].stmt.name
    /\ \A e \in Events :
           IsEnter(e) =>
               \E l \in Events :
                   PoppedAt(e, l) /\ RegisteredInside(e, l) /\ RegisteredAfter(e, l)

\* a finished handle_assign of a single-target assignment to a plain name
NameAssignCase(i) ==
    AssignCase(i) /\ is_declared_reference(LhsOf(log[i].stmt))

RegistrationsOf(i) == {j \in log[i].at..i : Registers(j)}

\* the call that ended at i declared its target and registered it, once, in
\* the frame that was current
FirstBinding(i) ==
    /\ log[i].r.node \in {"VariableDeclaration", "FieldDeclaration"}
    /\ log[i].r.name = LhsOf(log[i].stmt).name
    /\ RegisteredOnTop(i)
    /\ \E j \in RegistrationsOf(i) :
           /\ RegistrationsOf(i) = {j}
           /\ log[j].ev = "addDeclaration"
           /\ log[j].decl = DeclEntry(log[i].r)
           /\ log[j].depth = Len(log[i].pre)

\* the call that ended at i rebound its target and registered nothing
LaterBinding(i) ==
    /\ log[i].r.node = "BinaryOperator"
    /\ log[i].r.operatorCode = "="
    /\ log[i].r.lhs = LhsOf(log[i].stmt)
    /\ RegistrationsOf(i) = {}
    /\ log[i].post = log[i].pre

\* a and b, in this order, are assignments to one name in one frame that
\* stayed open in between
SameFrame(a, b) ==
    /\ a < b
    /\ NameAssignCase(a) /\ NameAssignCase(b)
    /\ LhsOf(log[a].stmt).name = LhsOf(log[b].stmt).name
    /\ Len(log[a].pre) = Len(log[b].pre)
    /\ \A k \in a..b :
           log[k].ev = "leaveScope" => log[k].depth > Len(log[a].pre)

\* C15: of the single-target assignments to a plain name, the one that finds
\* the name registered in no frame of the stack declares it and registers it
\* at that moment; one that finds it registered, by an earlier assignment, an
\* import or a loop target, is a "=" rebinding; so no two assignments
\* register one name in one frame
C15_FirstBindingOnce ==
    /\ \A i \in Events :
           NameAssignCase(i) =>
               IF Known(log[i].pre, LhsOf(log[i].stmt))
               THEN LaterBinding(i)
               ELSE FirstBinding(i)
    /\ \A a, b \in Events : SameFrame(a, b) => LaterBinding(b)

\* C15 happens: in a function body the first assignment to x declared it and
\* the second one rebound it
C15_Witness ==
    \E a, b \in Events :
        /\ SameFrame(a, b)
        /\ Len(log[a].pre) > 1
        /\ ~Known(log[a].pre, LhsOf(log[a].stmt))
        /\ FirstBinding(a)
        /\ LaterBinding(b)
====
